---- MODULE Spec2Model ----
(***************************************************************************)
(* A model of backend/ai/a_star.py: the AStarPlanner of the escape-route   *)
(* planner.  One planning call (find_path or find_path_with_risk) is a     *)
(* behaviour: the call's entry (argument validation and initialisation),   *)
(* then one step per iteration of the `while open_set` loop, then the      *)
(* return.  compare_routes is a caller of the two: its three searches run  *)
(* one after the other, each step by step.  Further specifications put     *)
(* several calls on the one planner instance of main.py, one after the     *)
(* other (SessionSpec) and two at a time (ConcurrentSpec); DeepSpec and    *)
(* CornerSpec run one call on grids of their own, and RouteSpec puts the   *)
(* handler of POST /route/astar (main.py) in front of the planner.         *)
(*                                                                         *)
(* Numbers.  Python floats are modelled in fixed point:                    *)
(*   - every cost (g, h, f, edge cost) is an integer number of millionths, *)
(*     so 1.0 is 1000000 and the source's 1.414 is 1414000;                *)
(*   - math.sqrt is its value rounded to five decimals (SqrtMicro);        *)
(*   - a risk value and the safety weight are integers in tenths           *)
(*     (9 is 0.9, 8 is 0.8, -10 is -1.0, 20 is 2.0).                       *)
(* Sums and comparisons are exact, so two f values that are equal as reals *)
(* tie here, where float rounding may order them either way; the costs and *)
(* lengths returned do not depend on it.                                   *)
(* Positions are pairs <<x, y>>, zero-based as in the source; None is the  *)
(* empty tuple.                                                            *)
(***************************************************************************)
EXTENDS Integers, Sequences, FiniteSets, TLC

VARIABLES
    op,             \* the operation called: "find_path" or "find_path_with_risk"
                    \* ("none": the request handler has not called the planner)
    grid,           \* argument: list of rows, each a list of 0 (free) / 1 (obstacle)
    start,          \* argument: <<x, y>>
    goal,           \* argument: <<x, y>>
    blocked,        \* argument: the blocked positions (as blocked_set)
    risk_given,     \* FALSE when the risk_map argument is None
    risk_map,       \* argument: matrix of risk values in tenths (<<>> when None)
    safety_weight,  \* argument: in tenths
    pc,             \* the search's position: "call", "search", "done" ("idle":
                    \* compare_routes has not called a search yet)
    open_set,       \* the heap list: a sequence of node references (positions)
    closed_set,     \* set of positions
    all_nodes,      \* position -> [g, h, f, parent]: the Node objects of this call
    current,        \* the position popped by the last loop iteration (None before)
    result,         \* the returned tuple, as a record
    planner,        \* the attributes of the AStarPlanner instance (it has none)
    cpc,            \* compare_routes's position: "none" (not called), "call",
                    \* "shortest", "safest", "balanced", "done"
    kept,           \* compare_routes's locals: the tuples its searches returned
    routes,         \* the dictionary compare_routes returns (None before)
    calls,          \* the calls the planner has finished: arguments and result
    other,          \* the call of the other thread, suspended (None without one)
    payload,        \* the body of a POST /route/astar request (None without one)
    hpc,            \* plan_escape_route's position: "none" (no request),
                    \* "request", "planning", "done"
    response        \* what plan_escape_route returned or raised (None before)

vars == <<op, grid, start, goal, blocked, risk_given, risk_map, safety_weight,
          pc, open_set, closed_set, all_nodes, current, result,
          planner, cpc, kept, routes, calls, other, payload, hpc, response>>

\* what a search neither reads nor writes: the planner's attributes, the
\* frame of its caller, the record of finished calls, the other thread, the
\* request being served
outer == <<planner, cpc, kept, routes, calls, other, payload, hpc, response>>

args == <<op, grid, start, goal, blocked, risk_given, risk_map, safety_weight>>

-----------------------------------------------------------------------------
(* Bounds of the model. *)

\* side of the small grids, which are enumerated with every obstacle pattern
SmallN == 2
\* side of the wide square grids, which carry one horizontal wall segment
WideN == 5

(* Program constants. *)

\* 1.0, the orthogonal move cost, in millionths
OrthCost == 1000000
\* 1.414, the diagonal move cost, in millionths
DiagCost == 1414000
\* float('inf')
Inf == 2147483647
\* the scale of risk in edge costs and in the heuristic (risk * 10.0)
RiskScale == 10

None == <<>>

-----------------------------------------------------------------------------
(* Arithmetic helpers. *)

Abs(n) == IF n < 0 THEN -n ELSE n

Min(a, b) == IF a < b THEN a ELSE b

Max(a, b) == IF a < b THEN b ELSE a

\* math.sqrt(n) in millionths, rounded to five decimals, for the sums of two
\* squares a grid of side up to 8 produces
SqrtMicro(n) ==
    CASE n = 0 -> 0        [] n = 1 -> 1000000  [] n = 2 -> 1414210
      [] n = 4 -> 2000000  [] n = 5 -> 2236070  [] n = 8 -> 2828430
      [] n = 9 -> 3000000  [] n = 10 -> 3162280 [] n = 13 -> 3605550
      [] n = 16 -> 4000000 [] n = 17 -> 4123110 [] n = 18 -> 4242640
      [] n = 20 -> 4472140 [] n = 25 -> 5000000 [] n = 26 -> 5099020
      [] n = 29 -> 5385160 [] n = 32 -> 5656850 [] n = 34 -> 5830950
      [] n = 36 -> 6000000 [] n = 37 -> 6082760 [] n = 40 -> 6324560
      [] n = 41 -> 6403120 [] n = 45 -> 6708200 [] n = 49 -> 7000000
      [] n = 50 -> 7071070 [] n = 52 -> 7211100 [] n = 53 -> 7280110
      [] n = 58 -> 7615770 [] n = 61 -> 7810250 [] n = 65 -> 8062260
      [] n = 72 -> 8485280 [] n = 74 -> 8602330 [] n = 85 -> 9219540
      [] n = 98 -> 9899490

-----------------------------------------------------------------------------
(* The grid. *)

Rows(g) == Len(g)

\* cols = len(grid[0]), read only where the grid has a row
Cols(g) == Len(g[1])

\* 0 <= x < rows and 0 <= y < cols
InBounds(g, p) ==
    /\ Rows(g) > 0
    /\ 0 <= p[1] /\ p[1] < Rows(g)
    /\ 0 <= p[2] /\ p[2] < Cols(g)

\* grid[x][y]
Cell(g, p) == g[p[1] + 1][p[2] + 1]

\* risk_map[x][y], in tenths
RiskAt(rm, p) == rm[p[1] + 1][p[2] + 1]

-----------------------------------------------------------------------------
(* AStarPlanner's helpers. *)

\* _heuristic: math.sqrt((x2 - x1) ** 2 + (y2 - y1) ** 2)
Heuristic(p, q) ==
    SqrtMicro((q[1] - p[1]) * (q[1] - p[1]) + (q[2] - p[2]) * (q[2] - p[2]))

\* the directions of _get_neighbors, in the order the source lists them
Directions ==
    << <<-1, -1>>, <<-1, 0>>, <<-1, 1>>,
       <<0, -1>>,             <<0, 1>>,
       <<1, -1>>,  <<1, 0>>,  <<1, 1>> >>

\* mutant of NeighborOk: the grid's obstacle cells are not tested
NeighborOkIgnoringObstacles(g, blk, q) == InBounds(g, q) /\ q \notin blk

\* the test _get_neighbors applies to one candidate cell
NeighborOk(g, blk, q) == InBounds(g, q) /\ q \notin blk /\ Cell(g, q) = 0

\* mutant of NeighborsFrom: a diagonal move is dropped when both cells
\* orthogonally adjacent to it fail the test
RECURSIVE NeighborsFromUncut(_, _, _, _)
NeighborsFromUncut(p, g, blk, i) ==
    IF i > Len(Directions) THEN <<>>
    ELSE LET d == Directions[i]
             q == <<p[1] + d[1], p[2] + d[2]>>
             rest == NeighborsFromUncut(p, g, blk, i + 1)
             squeezed == /\ d[1] # 0 /\ d[2] # 0
                         /\ ~NeighborOk(g, blk, <<p[1] + d[1], p[2]>>)
                         /\ ~NeighborOk(g, blk, <<p[1], p[2] + d[2]>>)
         IN  IF NeighborOk(g, blk, q) /\ ~squeezed THEN <<q>> \o rest ELSE rest

RECURSIVE NeighborsFrom(_, _, _, _)
NeighborsFrom(p, g, blk, i) ==
    IF i > Len(Directions) THEN <<>>
    ELSE LET q == <<p[1] + Directions[i][1], p[2] + Directions[i][2]>>
             rest == NeighborsFrom(p, g, blk, i + 1)
         IN  IF NeighborOk(g, blk, q) THEN <<q>> \o rest ELSE rest

\* _get_neighbors: the valid neighbours of p, in direction order
GetNeighbors(p, g, blk) == NeighborsFrom(p, g, blk, 1)

\* _calculate_cost
CalculateCost(p, q) ==
    IF Abs(q[1] - p[1]) = 1 /\ Abs(q[2] - p[2]) = 1 THEN DiagCost ELSE OrthCost

-----------------------------------------------------------------------------
(* heapq on a list of Node references.  Node.__lt__ compares f, read from  *)
(* the node table at the moment of the comparison: a Node that is updated  *)
(* in place changes the key of every entry of the heap that refers to it.  *)
(* Heap indices are zero-based as in heapq; h[i + 1] is heap[i].           *)

\* Node.__lt__
NodeLt(nodes, a, b) == nodes[a].f < nodes[b].f

\* heapq._siftdown(heap, startpos, pos), newitem = heap[pos] carried along
RECURSIVE SiftDown(_, _, _, _, _)
SiftDown(h, nodes, startpos, pos, newitem) ==
    IF pos > startpos
    THEN LET parentpos == (pos - 1) \div 2
             parent == h[parentpos + 1]
         IN  IF NodeLt(nodes, newitem, parent)
             THEN SiftDown([h EXCEPT ![pos + 1] = parent], nodes, startpos,
                           parentpos, newitem)
             ELSE [h EXCEPT ![pos + 1] = newitem]
    ELSE [h EXCEPT ![pos + 1] = newitem]

\* heapq.heappush
HeapPush(h, nodes, item) ==
    SiftDown(Append(h, item), nodes, 0, Len(h), item)

\* the loop of heapq._siftup: the smaller child bubbles up until a leaf is hit;
\* returns the heap and the leaf position
RECURSIVE SiftUpLoop(_, _, _)
SiftUpLoop(h, nodes, pos) ==
    LET endpos == Len(h)
        childpos == 2 * pos + 1
        rightpos == childpos + 1
    IN  IF childpos < endpos
        THEN LET c == IF rightpos < endpos
                         /\ ~NodeLt(nodes, h[childpos + 1], h[rightpos + 1])
                      THEN rightpos ELSE childpos
             IN  SiftUpLoop([h EXCEPT ![pos + 1] = h[c + 1]], nodes, c)
        ELSE [heap |-> h, pos |-> pos]

\* heapq._siftup(heap, pos)
SiftUp(h, nodes, pos) ==
    LET newitem == h[pos + 1]
        r == SiftUpLoop(h, nodes, pos)
    IN  SiftDown(r.heap, nodes, pos, r.pos, newitem)

\* heapq.heappop on a non-empty heap: the item returned and the heap left
HeapPop(h, nodes) ==
    LET lastelt == h[Len(h)]
        rest == SubSeq(h, 1, Len(h) - 1)
    IN  IF rest # <<>>
        THEN [item |-> h[1],
              heap |-> SiftUp([rest EXCEPT ![1] = lastelt], nodes, 0)]
        ELSE [item |-> lastelt, heap |-> rest]

-----------------------------------------------------------------------------
(* The search of find_path and find_path_with_risk. *)

\* find_path_with_risk, `if risk_map is None`: the all-zero default map
\* (len(grid[0]) is read once per row, so never on a grid without rows)
DefaultRiskMap(g) == [x \in 1..Len(g) |-> [y \in 1..Len(g[1]) |-> 0]]

\* the risk map the search of find_path_with_risk reads
RiskMapUsed == IF risk_given THEN risk_map ELSE DefaultRiskMap(grid)

\* mutant of CombinedCost: the risk term is left out
CombinedCostWithoutRisk(p, q) ==
    (CalculateCost(p, q) * (10 - safety_weight)) \div 10

\* mutant of CombinedCost: the risk of the cell the edge leaves
CombinedCostOfSource(p, q) ==
    LET move_cost == CalculateCost(p, q)
        risk_cost == IF InBounds(grid, p)
                     THEN RiskAt(RiskMapUsed, p) * ((RiskScale * OrthCost) \div 10)
                     ELSE 0
    IN  (move_cost * (10 - safety_weight) + risk_cost * safety_weight) \div 10

\* combined_cost = move_cost * (1 - safety_weight) + risk_cost * safety_weight,
\* risk_cost = risk_map[nx][ny] * 10.0
CombinedCost(p, q) ==
    LET move_cost == CalculateCost(p, q)
        risk_cost == IF InBounds(grid, q)
                     THEN RiskAt(RiskMapUsed, q) * ((RiskScale * OrthCost) \div 10)
                     ELSE 0
    IN  (move_cost * (10 - safety_weight) + risk_cost * safety_weight) \div 10

\* mutant of RiskHeuristic: the risk penalty is not weighted
RiskHeuristicUnweighted(p, q) ==
    LET base_dist == Heuristic(p, q)
        risk_penalty == IF InBounds(grid, p) /\ InBounds(grid, q)
                        THEN (RiskAt(RiskMapUsed, p) + RiskAt(RiskMapUsed, q))
                               * ((RiskScale * OrthCost) \div 20)
                        ELSE 0
    IN  (base_dist * (10 - safety_weight)) \div 10 + risk_penalty

\* risk_heuristic, the closure of find_path_with_risk
RiskHeuristic(p, q) ==
    LET base_dist == Heuristic(p, q)
        \* avg_risk * 10.0 = (risk[p] + risk[q]) / 2 * 10.0
        risk_penalty == IF InBounds(grid, p) /\ InBounds(grid, q)
                        THEN (RiskAt(RiskMapUsed, p) + RiskAt(RiskMapUsed, q))
                               * ((RiskScale * OrthCost) \div 20)
                        ELSE 0
    IN  (base_dist * (10 - safety_weight) + risk_penalty * safety_weight) \div 10

\* the cost of the edge current -> neighbour that the called operation adds to g
EdgeCost(p, q) ==
    IF op = "find_path" THEN CalculateCost(p, q) ELSE CombinedCost(p, q)

\* the heuristic the called operation stores in h
HeuristicOf(p, q) ==
    IF op = "find_path" THEN Heuristic(p, q) ELSE RiskHeuristic(p, q)

\* mutant of NotBetter: an equal cost replaces the record
NotBetterOnlyGreater(tentative_g, g) == tentative_g > g

\* `if tentative_g >= neighbor_node.g: continue`
NotBetter(tentative_g, g) == tentative_g >= g

\* mutant of AlreadyClosed: closed positions are relaxed again
NeverClosed(closed, n) == FALSE

\* `if (nx, ny) in closed_set: continue`
AlreadyClosed(closed, n) == n \in closed

\* the body of `for nx, ny in neighbors`, from neighbour i on: the node table
\* and the heap after the loop
RECURSIVE RelaxFrom(_, _, _, _, _, _)
RelaxFrom(nodes, heap, closed, cur, nbrs, i) ==
    IF i > Len(nbrs) THEN [nodes |-> nodes, heap |-> heap]
    ELSE LET n == nbrs[i]
             tentative_g == nodes[cur].g + EdgeCost(cur, n)
             seen == n \in DOMAIN nodes
         IN  IF AlreadyClosed(closed, n)
             THEN RelaxFrom(nodes, heap, closed, cur, nbrs, i + 1)
             ELSE IF seen /\ NotBetter(tentative_g, nodes[n].g)
             THEN RelaxFrom(nodes, heap, closed, cur, nbrs, i + 1)
             ELSE LET h == HeuristicOf(n, goal)
                      node == [g |-> tentative_g, h |-> h,
                               f |-> tentative_g + h, parent |-> cur]
                      nodes2 == IF seen THEN [nodes EXCEPT ![n] = node]
                                ELSE [q \in DOMAIN nodes \cup {n} |->
                                        IF q = n THEN node ELSE nodes[q]]
                  IN  RelaxFrom(nodes2, HeapPush(heap, nodes2, n), closed,
                                cur, nbrs, i + 1)

\* `while node is not None: path.append(...); node = node.parent`
RECURSIVE WalkBack(_, _)
WalkBack(nodes, p) ==
    IF p = None THEN <<>> ELSE <<p>> \o WalkBack(nodes, nodes[p].parent)

\* path.reverse()
Reverse(s) == [i \in 1..Len(s) |-> s[Len(s) + 1 - i]]

\* mutant of ReconstructPath: the walk from the goal is not reversed
ReconstructPathUnreversed(nodes, p) == WalkBack(nodes, p)

\* the path reconstructed from the popped goal node
ReconstructPath(nodes, p) == Reverse(WalkBack(nodes, p))

\* mutant of PathLength: the number of positions
PathLengthInNodes(path) == Len(path)

\* len(path) - 1
PathLength(path) == Len(path) - 1

\* mutant of TotalRisk: the start cell is left out of the sum
RECURSIVE TotalRiskAfterStart(_, _)
TotalRiskAfterStart(rm, path) ==
    IF Len(path) < 2 THEN 0
    ELSE (IF InBounds(grid, path[Len(path)]) THEN RiskAt(rm, path[Len(path)]) ELSE 0)
         + TotalRiskAfterStart(rm, SubSeq(path, 1, Len(path) - 1))

\* total_risk: risk_map[node.x][node.y] summed while walking back
RECURSIVE TotalRisk(_, _)
TotalRisk(rm, path) ==
    IF path = <<>> THEN 0
    ELSE (IF InBounds(grid, Head(path)) THEN RiskAt(rm, Head(path)) ELSE 0)
         + TotalRisk(rm, Tail(path))

\* `return [], float('inf'), 0` and `return [], float('inf'), float('inf'), 0`;
\* find_path returns no risk, its risk field stays 0
NoPathResult ==
    [path |-> <<>>, cost |-> Inf,
     risk |-> IF op = "find_path" THEN 0 ELSE Inf, length |-> 0]

\* the state before any return
NoResult == [path |-> <<>>, cost |-> 0, risk |-> 0, length |-> 0]

\* mutant of ValidEndpoints: the blocked set is not consulted
ValidEndpointsIgnoringBlocked(g, s, t, blk) ==
    /\ InBounds(g, s)
    /\ InBounds(g, t)
    /\ Cell(g, s) # 1
    /\ Cell(g, t) # 1

\* find_path's validation of start and goal (lines 141-148)
ValidEndpoints(g, s, t, blk) ==
    /\ InBounds(g, s)
    /\ InBounds(g, t)
    /\ ~(s \in blk \/ Cell(g, s) = 1)
    /\ ~(t \in blk \/ Cell(g, t) = 1)

\* find_path_with_risk's validation of start and goal (lines 251-254)
ValidEndpointsRisk(g, s, t) == InBounds(g, s) /\ InBounds(g, t)

\* the start node, the heap and the node table a search begins with
StartNode(h) == [g |-> 0, h |-> h, f |-> 0 + h, parent |-> None]

\* mutant of BeginSearch: the closed set is kept from the search before
BeginSearchKeepingClosed ==
    /\ pc' = "search"
    /\ open_set' = <<start>>
    /\ closed_set' = closed_set
    /\ all_nodes' = [q \in {start} |-> StartNode(HeuristicOf(start, goal))]
    /\ UNCHANGED <<current, result>>

BeginSearch ==
    /\ pc' = "search"
    /\ open_set' = <<start>>
    /\ closed_set' = {}
    /\ all_nodes' = [q \in {start} |-> StartNode(HeuristicOf(start, goal))]
    /\ UNCHANGED <<current, result>>

ReturnNoPath ==
    /\ pc' = "done"
    /\ result' = NoPathResult
    /\ UNCHANGED <<open_set, closed_set, all_nodes, current>>

\* entry of find_path: validation, then the initial node, heap and tables
FindPathCall ==
    /\ pc = "call"
    /\ op = "find_path"
    /\ IF Rows(grid) = 0 THEN ReturnNoPath
       ELSE IF ~ValidEndpoints(grid, start, goal, blocked) THEN ReturnNoPath
       ELSE BeginSearch
    /\ UNCHANGED args
    /\ UNCHANGED outer

\* entry of find_path_with_risk: validation, then the initial node, heap and
\* tables (the default risk map of a grid without rows is the empty list)
FindPathWithRiskCall ==
    /\ pc = "call"
    /\ op = "find_path_with_risk"
    /\ IF Rows(grid) = 0 THEN ReturnNoPath
       ELSE IF ~ValidEndpointsRisk(grid, start, goal) THEN ReturnNoPath
       ELSE BeginSearch
    /\ UNCHANGED args
    /\ UNCHANGED outer

\* `while open_set` fails: no path found
NoPath ==
    /\ pc = "search"
    /\ open_set = <<>>
    /\ ReturnNoPath
    /\ UNCHANGED args
    /\ UNCHANGED outer

\* what heappop returns at the head of the loop
Popped == HeapPop(open_set, all_nodes)

\* the tuple returned when the goal node is popped
GoalResult(nodes, p) ==
    LET path == ReconstructPath(nodes, p)
    IN  [path |-> path, cost |-> nodes[p].g,
         risk |-> IF op = "find_path" THEN 0 ELSE TotalRisk(RiskMapUsed, path),
         length |-> PathLength(path)]

\* one iteration that pops the goal: reconstruct the path and return
GoalReached ==
    /\ pc = "search"
    /\ open_set # <<>>
    /\ Popped.item = goal
    /\ pc' = "done"
    /\ current' = Popped.item
    /\ open_set' = Popped.heap
    /\ result' = GoalResult(all_nodes, Popped.item)
    /\ UNCHANGED <<closed_set, all_nodes>>
    /\ UNCHANGED args
    /\ UNCHANGED outer

\* mutant of Expand: the popped position is not added to the closed set
ExpandWithoutClosing ==
    /\ pc = "search"
    /\ open_set # <<>>
    /\ Popped.item # goal
    /\ LET cur == Popped.item
           r == RelaxFrom(all_nodes, Popped.heap, closed_set, cur,
                          GetNeighbors(cur, grid, blocked), 1)
       IN  /\ current' = cur
           /\ closed_set' = closed_set
           /\ all_nodes' = r.nodes
           /\ open_set' = r.heap
    /\ UNCHANGED <<pc, result>>
    /\ UNCHANGED args
    /\ UNCHANGED outer

\* mutant of Expand: the closed cell is marked in the caller's grid
ExpandMarkingGrid ==
    /\ pc = "search"
    /\ open_set # <<>>
    /\ Popped.item # goal
    /\ LET cur == Popped.item
           closed == closed_set \cup {cur}
           r == RelaxFrom(all_nodes, Popped.heap, closed, cur,
                          GetNeighbors(cur, grid, blocked), 1)
       IN  /\ current' = cur
           /\ closed_set' = closed
           /\ all_nodes' = r.nodes
           /\ open_set' = r.heap
           /\ grid' = [grid EXCEPT ![cur[1] + 1][cur[2] + 1] = 1]
    /\ UNCHANGED <<pc, result>>
    /\ UNCHANGED <<op, start, goal, blocked, risk_given, risk_map, safety_weight>>
    /\ UNCHANGED outer

\* one iteration that pops another node: close it and relax its neighbours
Expand ==
    /\ pc = "search"
    /\ open_set # <<>>
    /\ Popped.item # goal
    /\ LET cur == Popped.item
           closed == closed_set \cup {cur}
           r == RelaxFrom(all_nodes, Popped.heap, closed, cur,
                          GetNeighbors(cur, grid, blocked), 1)
       IN  /\ current' = cur
           /\ closed_set' = closed
           /\ all_nodes' = r.nodes
           /\ open_set' = r.heap
    /\ UNCHANGED <<pc, result>>
    /\ UNCHANGED args
    /\ UNCHANGED outer

Next ==
    \/ FindPathCall
    \/ FindPathWithRiskCall
    \/ NoPath
    \/ GoalReached
    \/ Expand

-----------------------------------------------------------------------------
(* compare_routes: find_path, then find_path_with_risk twice when a risk   *)
(* map is given, then the dictionary of the three labelled results.        *)

\* safety_weight=0.8 of the safest route, in tenths
SafestWeight == 8
\* safety_weight=0.5 of the balanced route, in tenths
BalancedWeight == 5

\* mutant of RiskMapTruthy: `if risk_map != []`, which None passes
RiskMapNotEmptyList == ~risk_given \/ risk_map # <<>>

\* `if risk_map:` - None and the empty list are false
RiskMapTruthy == risk_given /\ risk_map # <<>>

\* round(x, 2) of a cost in millionths, in hundredths (a half goes up: which
\* way the float goes is not modelled); round(inf, 2) is inf
RoundCost(c) == IF c = Inf THEN Inf ELSE (c + 5000) \div 10000

\* round(x, 2) of a risk in tenths, in hundredths
RoundRisk(r) == IF r = Inf THEN Inf ELSE r * 10

\* `len(path) - 1 if path else 0`
LengthOf(path) == IF path # <<>> THEN Len(path) - 1 ELSE 0

\* the entries "safest" and "balanced" of the returned dictionary
Labeled(t) ==
    [path |-> t.path, distance |-> RoundCost(t.cost),
     risk |-> RoundRisk(t.risk), length |-> LengthOf(t.path)]

\* the entry "shortest" of the returned dictionary: its risk is the literal 0.0
LabeledShortest(t) ==
    [path |-> t.path, distance |-> RoundCost(t.cost),
     risk |-> 0, length |-> LengthOf(t.path)]

\* the dictionary compare_routes returns
RoutesOf(k) ==
    [shortest |-> LabeledShortest(k.shortest),
     safest |-> Labeled(k.safest),
     balanced |-> Labeled(k.balanced)]

\* a call of a search method from compare_routes: the callee is at its entry
CallSearch(o, w) ==
    /\ op' = o
    /\ safety_weight' = w
    /\ pc' = "call"
    /\ result' = NoResult
    /\ UNCHANGED <<grid, start, goal, blocked, risk_given, risk_map>>
    /\ UNCHANGED <<open_set, closed_set, all_nodes, current>>

\* entry of compare_routes: it calls find_path
CompareRoutesCall ==
    /\ cpc = "call"
    /\ CallSearch("find_path", safety_weight)
    /\ cpc' = "shortest"
    /\ UNCHANGED <<planner, kept, routes, calls, other, payload, hpc, response>>

\* find_path has returned: with a risk map the safest search is called, and
\* without one safest and balanced are the shortest result with risk 0.0
CompareAfterShortest ==
    /\ cpc = "shortest"
    /\ pc = "done"
    /\ LET sh == [path |-> result.path, cost |-> result.cost]
           zero == [path |-> result.path, cost |-> result.cost, risk |-> 0]
       IN  IF RiskMapTruthy
           THEN /\ kept' = [shortest |-> sh]
                /\ CallSearch("find_path_with_risk", SafestWeight)
                /\ cpc' = "safest"
                /\ UNCHANGED routes
           ELSE /\ kept' = [shortest |-> sh, safest |-> zero, balanced |-> zero]
                /\ routes' = RoutesOf(kept')
                /\ cpc' = "done"
                /\ UNCHANGED <<pc, open_set, closed_set, all_nodes, current, result>>
                /\ UNCHANGED args
    /\ UNCHANGED <<planner, calls, other, payload, hpc, response>>

\* the safest search has returned: the balanced search is called
CompareAfterSafest ==
    /\ cpc = "safest"
    /\ pc = "done"
    /\ kept' = [shortest |-> kept.shortest,
                safest |-> [path |-> result.path, cost |-> result.cost,
                            risk |-> result.risk]]
    /\ CallSearch("find_path_with_risk", BalancedWeight)
    /\ cpc' = "balanced"
    /\ UNCHANGED <<planner, routes, calls, other, payload, hpc, response>>

\* the balanced search has returned: compare_routes returns its dictionary
CompareAfterBalanced ==
    /\ cpc = "balanced"
    /\ pc = "done"
    /\ kept' = [shortest |-> kept.shortest, safest |-> kept.safest,
                balanced |-> [path |-> result.path, cost |-> result.cost,
                              risk |-> result.risk]]
    /\ routes' = RoutesOf(kept')
    /\ cpc' = "done"
    /\ UNCHANGED <<pc, open_set, closed_set, all_nodes, current, result>>
    /\ UNCHANGED args
    /\ UNCHANGED <<planner, calls, other, payload, hpc, response>>

\* the steps of one call of any of the three operations
CompareNext ==
    \/ FindPathCall
    \/ FindPathWithRiskCall
    \/ NoPath
    \/ GoalReached
    \/ Expand
    \/ CompareRoutesCall
    \/ CompareAfterShortest
    \/ CompareAfterSafest
    \/ CompareAfterBalanced

-----------------------------------------------------------------------------
(* The calls the model makes: the arguments of one call are drawn from     *)
(* two families of grids.                                                  *)

\* the positions of an R x C grid
Cells(R, C) == (0..(R - 1)) \X (0..(C - 1))

\* the R x C grid whose obstacles are the cells of O
GridOf(R, C, O) ==
    [x \in 1..R |-> [y \in 1..C |-> IF <<x - 1, y - 1>> \in O THEN 1 ELSE 0]]

\* positions outside an R x C grid: a negative row, a negative column, a row
\* and a column one past the end
Outside(R, C) == {<<-1, 0>>, <<0, -1>>, <<R, 0>>, <<0, C>>} \ Cells(R, C)

\* small grids: every shape up to SmallN x SmallN (no rows, and rows without
\* columns, included), start and goal anywhere in the grid or outside it,
\* each of them free, an obstacle cell or in the blocked list
SmallShapes == {<<0, 0>>} \cup ((1..SmallN) \X (0..SmallN))

\* the start and goal positions tried on an R x C grid
Positions(R, C) == Cells(R, C) \cup Outside(R, C)

SmallInputsOf(R, C) ==
    UNION {UNION {{[grid |-> GridOf(R, C, O), start |-> s, goal |-> t,
                    blocked |-> B] :
                      O \in SUBSET ({s, t} \cap Cells(R, C)),
                      B \in {{}, {s}, {t}}} :
                  t \in Positions(R, C)} :
           s \in Positions(R, C)}

SmallInputs == UNION {SmallInputsOf(sh[1], sh[2]) : sh \in SmallShapes}

\* a horizontal wall: the cells of row r from column c1 to column c2
Wall(r, c1, c2) == {<<r, c>> : c \in c1..c2}

\* the walls of a wide grid, in row 1, and no wall at all
Walls ==
    {{}} \cup {Wall(1, w[1], w[2]) :
                 w \in {v \in (0..(WideN - 1)) \X (0..(WideN - 1)) : v[1] <= v[2]}}

\* wide grids: WideN x WideN with one wall, start in the last row, goal in
\* the first row
WideInputs ==
    {[grid |-> GridOf(WideN, WideN, w[1]), start |-> <<WideN - 1, w[2]>>,
      goal |-> <<0, w[3]>>, blocked |-> {}] :
        w \in Walls \X (0..(WideN - 1)) \X (0..(WideN - 1))}

Inputs == SmallInputs \cup WideInputs

\* the all-zero risk map of a grid
ZeroRisk(g) == [x \in 1..Len(g) |-> [y \in 1..Len(g[x]) |-> 0]]

\* risk 0.9 on the cells (i, i), 0 elsewhere
DiagonalRisk(g) ==
    [x \in 1..Len(g) |-> [y \in 1..Len(g[x]) |-> IF x = y THEN 9 ELSE 0]]

\* the risk_map and safety_weight arguments tried: no map (None) with the
\* default weight, and two maps under weights inside and outside [0, 1]
RiskSettings(g) ==
    {[given |-> FALSE, map |-> <<>>, weight |-> 5]}
    \cup {[given |-> TRUE, map |-> m, weight |-> w] :
            <<m, w>> \in ({ZeroRisk(g)} \X {5, 8})
                         \cup ({DiagonalRisk(g)} \X {-10, 0, 8, 20})}

\* the planner is called directly, not through the route of main.py
NoRequest ==
    /\ payload = None
    /\ hpc = "none"
    /\ response = None

\* one call, made directly: no compare_routes, no earlier call, no other thread
InitOuter ==
    /\ NoRequest
    /\ planner = <<>>
    /\ cpc = "none"
    /\ kept = <<>>
    /\ routes = None
    /\ calls = <<>>
    /\ other = None

Init ==
    /\ \E in \in Inputs :
          /\ grid = in.grid
          /\ start = in.start
          /\ goal = in.goal
          /\ blocked = in.blocked
          /\ \/ /\ op = "find_path"
                /\ risk_given = FALSE
                /\ risk_map = <<>>
                /\ safety_weight = 5
             \/ /\ op = "find_path_with_risk"
                /\ \E rs \in RiskSettings(in.grid) :
                      /\ risk_given = rs.given
                      /\ risk_map = rs.map
                      /\ safety_weight = rs.weight
    /\ pc = "call"
    /\ open_set = <<>>
    /\ closed_set = {}
    /\ all_nodes = <<>>
    /\ current = None
    /\ result = NoResult
    /\ InitOuter

Spec == Init /\ [][Next]_vars

\* the scenario of the diagonal risk: 5 x 5, no obstacle, corner to corner
ScenarioInput ==
    [grid |-> GridOf(5, 5, {}), start |-> <<0, 0>>, goal |-> <<4, 4>>,
     blocked |-> {}]

\* the risk_map arguments tried with compare_routes: None, the empty list,
\* and the two maps
CompareRiskMaps(g) ==
    {[given |-> FALSE, map |-> <<>>], [given |-> TRUE, map |-> <<>>],
     [given |-> TRUE, map |-> ZeroRisk(g)], [given |-> TRUE, map |-> DiagonalRisk(g)]}

\* one call of compare_routes
InitCompare ==
    /\ \E in \in Inputs \cup {ScenarioInput} :
          /\ grid = in.grid
          /\ start = in.start
          /\ goal = in.goal
          /\ blocked = in.blocked
          /\ \E rm \in CompareRiskMaps(in.grid) :
                /\ risk_given = rm.given
                /\ risk_map = rm.map
    /\ op = "compare_routes"
    /\ safety_weight = BalancedWeight
    /\ pc = "idle"
    /\ open_set = <<>>
    /\ closed_set = {}
    /\ all_nodes = <<>>
    /\ current = None
    /\ result = NoResult
    /\ planner = <<>>
    /\ NoRequest
    /\ cpc = "call"
    /\ kept = <<>>
    /\ routes = None
    /\ calls = <<>>
    /\ other = None

CompareSpec == InitCompare /\ [][CompareNext]_vars

-----------------------------------------------------------------------------
(* Several calls on the one planner instance (main.py's a_star_planner),   *)
(* one after the other.  The objects of a finished search stay where they  *)
(* are until the next search makes its own.                                *)

\* the number of calls of a session
MaxCalls == 3

\* the operation the caller called
TopOp == IF cpc = "none" THEN op ELSE "compare_routes"

\* the arguments of the call in progress (compare_routes takes no weight)
CallOf ==
    [op |-> TopOp, grid |-> grid, start |-> start, goal |-> goal,
     blocked |-> blocked, given |-> risk_given, map |-> risk_map,
     weight |-> IF cpc = "none" THEN safety_weight ELSE BalancedWeight]

\* the call in progress has returned to its caller
TopDone == pc = "done" /\ cpc \in {"none", "done"}

\* what it returned
Returned == IF cpc = "none" THEN result ELSE routes

\* the caller calls the operation c.op with the arguments of c
BeginCall(c) ==
    /\ op' = c.op
    /\ grid' = c.grid
    /\ start' = c.start
    /\ goal' = c.goal
    /\ blocked' = c.blocked
    /\ risk_given' = c.given
    /\ risk_map' = c.map
    /\ safety_weight' = c.weight
    /\ pc' = IF c.op = "compare_routes" THEN "idle" ELSE "call"
    /\ cpc' = IF c.op = "compare_routes" THEN "call" ELSE "none"
    /\ kept' = <<>>
    /\ routes' = None
    /\ result' = NoResult

\* the grids of a session, of side SmallN + 1: a wall across row 1, closed
\* or with a gap in the last column
SessionGrids ==
    {GridOf(SmallN + 1, SmallN + 1, Wall(1, 0, c)) : c \in {SmallN - 1, SmallN}}

\* the calls of a session: from the bottom left to the top left corner
SessionCalls ==
    {[op |-> o[1], grid |-> g, start |-> <<SmallN, 0>>, goal |-> <<0, 0>>,
      blocked |-> {}, given |-> o[2], map |-> IF o[2] THEN DiagonalRisk(g) ELSE <<>>,
      weight |-> o[3]] :
        g \in SessionGrids,
        o \in {<<"find_path", FALSE, BalancedWeight>>,
               <<"find_path_with_risk", TRUE, 0>>,
               <<"find_path_with_risk", FALSE, BalancedWeight>>,
               <<"compare_routes", TRUE, BalancedWeight>>}}

\* the caller takes the result and makes its next call
NextCall ==
    /\ TopDone
    /\ Len(calls) + 1 < MaxCalls
    /\ calls' = Append(calls, [call |-> CallOf, ret |-> Returned])
    /\ \E c \in SessionCalls : BeginCall(c)
    /\ UNCHANGED <<open_set, closed_set, all_nodes, current>>
    /\ UNCHANGED <<planner, other, payload, hpc, response>>

InitSession ==
    /\ \E c \in SessionCalls :
          /\ op = c.op
          /\ grid = c.grid
          /\ start = c.start
          /\ goal = c.goal
          /\ blocked = c.blocked
          /\ risk_given = c.given
          /\ risk_map = c.map
          /\ safety_weight = c.weight
          /\ pc = IF c.op = "compare_routes" THEN "idle" ELSE "call"
          /\ cpc = IF c.op = "compare_routes" THEN "call" ELSE "none"
    /\ open_set = <<>>
    /\ closed_set = {}
    /\ all_nodes = <<>>
    /\ current = None
    /\ result = NoResult
    /\ planner = <<>>
    /\ NoRequest
    /\ kept = <<>>
    /\ routes = None
    /\ calls = <<>>
    /\ other = None

SessionNext == CompareNext \/ NextCall

SessionSpec == InitSession /\ [][SessionNext]_vars

\* the caller takes the result of find_path and calls find_path_with_risk
\* on the same grid, start, goal and blocked list, with safety_weight 0
NextCallZeroWeight ==
    /\ TopDone
    /\ op = "find_path"
    /\ calls = <<>>
    /\ calls' = Append(calls, [call |-> CallOf, ret |-> Returned])
    /\ BeginCall([op |-> "find_path_with_risk", grid |-> grid, start |-> start,
                  goal |-> goal, blocked |-> blocked, given |-> risk_given,
                  map |-> risk_map, weight |-> 0])
    /\ UNCHANGED <<open_set, closed_set, all_nodes, current>>
    /\ UNCHANGED <<planner, other, payload, hpc, response>>

\* a call of find_path by a caller that holds a risk map
InitPair ==
    /\ \E in \in Inputs :
          /\ grid = in.grid
          /\ start = in.start
          /\ goal = in.goal
          /\ blocked = in.blocked
          /\ risk_map = DiagonalRisk(in.grid)
    /\ op = "find_path"
    /\ risk_given = TRUE
    /\ safety_weight = 0
    /\ pc = "call"
    /\ open_set = <<>>
    /\ closed_set = {}
    /\ all_nodes = <<>>
    /\ current = None
    /\ result = NoResult
    /\ InitOuter

PairNext == Next \/ NextCallZeroWeight

PairSpec == InitPair /\ [][PairNext]_vars

-----------------------------------------------------------------------------
(* Two calls at a time on the one planner instance: one runs, the other is *)
(* suspended, and the scheduler may switch between any two steps.  What a  *)
(* call owns (its arguments, its locals, its position) goes with it; the   *)
(* planner instance is the only object the two share.                      *)

\* the call in progress: its arguments, its locals and its position
Frame ==
    [op |-> op, grid |-> grid, start |-> start, goal |-> goal,
     blocked |-> blocked, risk_given |-> risk_given, risk_map |-> risk_map,
     safety_weight |-> safety_weight, pc |-> pc, open_set |-> open_set,
     closed_set |-> closed_set, all_nodes |-> all_nodes, current |-> current,
     result |-> result, cpc |-> cpc, kept |-> kept, routes |-> routes]

\* the running call resumes as f
Resume(f) ==
    /\ op' = f.op
    /\ grid' = f.grid
    /\ start' = f.start
    /\ goal' = f.goal
    /\ blocked' = f.blocked
    /\ risk_given' = f.risk_given
    /\ risk_map' = f.risk_map
    /\ safety_weight' = f.safety_weight
    /\ pc' = f.pc
    /\ open_set' = f.open_set
    /\ all_nodes' = f.all_nodes
    /\ current' = f.current
    /\ result' = f.result
    /\ cpc' = f.cpc
    /\ kept' = f.kept
    /\ routes' = f.routes

\* mutant of ContextSwitch: the closed set belongs to the planner, one for
\* both calls
ContextSwitchSharingClosed ==
    /\ other # None
    /\ other' = Frame
    /\ Resume(other)
    /\ closed_set' = closed_set
    /\ UNCHANGED <<planner, calls, payload, hpc, response>>

\* the scheduler suspends the running call and resumes the other one
ContextSwitch ==
    /\ other # None
    /\ other' = Frame
    /\ Resume(other)
    /\ closed_set' = other.closed_set
    /\ UNCHANGED <<planner, calls, payload, hpc, response>>

\* a call at its entry
EntryFrame(c) ==
    [op |-> c.op, grid |-> c.grid, start |-> c.start, goal |-> c.goal,
     blocked |-> c.blocked, risk_given |-> c.given, risk_map |-> c.map,
     safety_weight |-> c.weight,
     pc |-> IF c.op = "compare_routes" THEN "idle" ELSE "call",
     open_set |-> <<>>, closed_set |-> {}, all_nodes |-> <<>>, current |-> None,
     result |-> NoResult,
     cpc |-> IF c.op = "compare_routes" THEN "call" ELSE "none",
     kept |-> <<>>, routes |-> None]

InitConcurrent ==
    /\ \E c \in SessionCalls :
          /\ op = c.op
          /\ grid = c.grid
          /\ start = c.start
          /\ goal = c.goal
          /\ blocked = c.blocked
          /\ risk_given = c.given
          /\ risk_map = c.map
          /\ safety_weight = c.weight
          /\ pc = EntryFrame(c).pc
          /\ cpc = EntryFrame(c).cpc
    /\ open_set = <<>>
    /\ closed_set = {}
    /\ all_nodes = <<>>
    /\ current = None
    /\ result = NoResult
    /\ kept = <<>>
    /\ routes = None
    /\ \E c \in SessionCalls : other = EntryFrame(c)
    /\ planner = <<>>
    /\ NoRequest
    /\ calls = <<>>

ConcurrentNext == CompareNext \/ ContextSwitch

ConcurrentSpec == InitConcurrent /\ [][ConcurrentNext]_vars

-----------------------------------------------------------------------------
(* What the claims speak of. *)

Done == pc = "done"

\* a position is traversable iff it is in bounds, not an obstacle and not in
\* the blocked set
Traversable(p) == InBounds(grid, p) /\ Cell(grid, p) = 0 /\ p \notin blocked

\* invalid input: no rows, or start or goal out of bounds, an obstacle cell
\* or blocked
InvalidInput ==
    \/ Rows(grid) = 0
    \/ ~Traversable(start)
    \/ ~Traversable(goal)

\* the no-path sentinel of each operation
Sentinel ==
    IF op = "find_path"
    THEN [path |-> <<>>, cost |-> Inf, risk |-> 0, length |-> 0]
    ELSE [path |-> <<>>, cost |-> Inf, risk |-> Inf, length |-> 0]

\* one 8-connected step apart
Adjacent(p, q) ==
    /\ p # q
    /\ Abs(p[1] - q[1]) <= 1
    /\ Abs(p[2] - q[2]) <= 1

FreeCells ==
    IF Rows(grid) = 0 THEN {}
    ELSE {p \in Cells(Rows(grid), Cols(grid)) : Traversable(p)}

RECURSIVE ReachFrom(_)
ReachFrom(S) ==
    LET N == S \cup {q \in FreeCells : \E p \in S : Adjacent(p, q)}
    IN  IF N = S THEN S ELSE ReachFrom(N)

\* the cells reachable from start through 8-connected traversable cells
Reachable == ReachFrom({start})

SetMin(S) == CHOOSE m \in S : \A x \in S : m <= x

\* the distance cost of one step: 1.0 orthogonal, the diagonal constant diagonal
StepCost(p, q) == IF p[1] # q[1] /\ p[2] # q[2] THEN DiagCost ELSE OrthCost

RECURSIVE Cheapest(_)
Cheapest(D) ==
    LET E == [q \in DOMAIN D |->
                SetMin({D[q]} \cup {D[p] + StepCost(p, q) :
                          p \in {r \in DOMAIN D : Adjacent(r, q) /\ D[r] < Inf}})]
    IN  IF E = D THEN D ELSE Cheapest(E)

\* the least summed distance cost of a traversable 8-connected path from
\* start to each free cell (Inf where there is none)
ShortestCost == Cheapest([q \in FreeCells |-> IF q = start THEN 0 ELSE Inf])

\* the summed distance cost of the edges of a path
RECURSIVE PathDistance(_)
PathDistance(path) ==
    IF Len(path) < 2 THEN 0
    ELSE StepCost(path[1], path[2]) + PathDistance(Tail(path))

-----------------------------------------------------------------------------
(* The claims. *)

\* C1: on invalid input (no rows, start or goal out of bounds, negative
\* coordinates included, on an obstacle or in the blocked set) find_path
\* returns the no-path sentinel ([], inf, 0) without starting a search, and
\* it returns the same value when the goal is merely unreachable.
C1_FindPathInvalidInput ==
    (Done /\ op = "find_path") =>
        /\ InvalidInput => (result = Sentinel /\ all_nodes = <<>>)
        /\ (~InvalidInput /\ goal \notin Reachable) => result = Sentinel

C1_Witness ==
    /\ Done /\ op = "find_path"
    /\ Rows(grid) > 0
    /\ start[1] < 0
    /\ Traversable(goal)
    /\ result = Sentinel

\* C2 (as claimed): on invalid input find_path_with_risk returns the no-path
\* sentinel ([], inf, inf, 0), as find_path does.
C2_RiskInvalidInput ==
    (Done /\ op = "find_path_with_risk" /\ InvalidInput) => result = Sentinel

\* C3: from traversable start and goal, find_path returns a non-empty path
\* iff the goal is reachable through 8-connected traversable cells; when it
\* is not, the open set has emptied and the result is the sentinel.
C3_PathIffReachable ==
    (Done /\ op = "find_path" /\ ~InvalidInput) =>
        /\ (result.path # <<>>) <=> (goal \in Reachable)
        /\ goal \notin Reachable => (open_set = <<>> /\ result = Sentinel)

C3_Witness ==
    /\ Done /\ op = "find_path" /\ ~InvalidInput
    /\ goal \notin Reachable
    /\ Cardinality(closed_set) > 2
    /\ result = Sentinel

\* C4 (as claimed): the cost find_path returns with a path is the least
\* summed edge cost of any traversable 8-connected path from start to goal.
C4_FindPathOptimal ==
    (Done /\ op = "find_path" /\ result.path # <<>>) =>
        result.cost <= ShortestCost[goal]

\* C5: a returned non-empty path begins at start, ends at goal, moves one
\* 8-connected step at a time, visits no position twice, and the reported
\* length is the number of positions minus 1.
C5_PathWellFormed ==
    (Done /\ result.path # <<>>) =>
        LET path == result.path
        IN  /\ path[1] = start
            /\ path[Len(path)] = goal
            /\ \A i \in 1..(Len(path) - 1) : Adjacent(path[i], path[i + 1])
            /\ \A i, j \in 1..Len(path) : path[i] = path[j] => i = j
            /\ result.length = Len(path) - 1

C5_Witness ==
    /\ Done /\ op = "find_path_with_risk"
    /\ Len(result.path) > WideN
    /\ result.path[1] = start
    /\ result.path[Len(result.path)] = goal

\* C6 (as claimed): every position of a returned path is traversable.
C6_PathTraversable ==
    (Done /\ result.path # <<>>) =>
        \A i \in 1..Len(result.path) : Traversable(result.path[i])

\* C7 (as claimed): for find_path and find_path_with_risk alike, the cost
\* returned with a path is the summed distance cost of the path's edges.
C7_CostIsPathDistance ==
    (Done /\ result.path # <<>>) => result.cost = PathDistance(result.path)

\* C8: find_path with start = goal = p, p traversable, returns ([p], 0, 0).
C8_StartIsGoal ==
    (Done /\ op = "find_path" /\ start = goal /\ Traversable(start)) =>
        result = [path |-> <<start>>, cost |-> 0, risk |-> 0, length |-> 0]

C8_Witness ==
    /\ Done /\ op = "find_path" /\ start = goal /\ Traversable(start)
    /\ result.path = <<start>>

\* C9 (as claimed): on a grid without obstacles or blocked cells find_path
\* returns min(|dr|,|dc|) diagonal steps at sqrt(2) each plus ||dr|-|dc||
\* orthogonal steps at 1.0 each, with length max(|dr|,|dc|).
C9_OpenGridDistance ==
    (Done /\ op = "find_path" /\ ~InvalidInput /\ blocked = {}
          /\ FreeCells = Cells(Rows(grid), Cols(grid))) =>
        LET dr == Abs(goal[1] - start[1])
            dc == Abs(goal[2] - start[2])
        IN  /\ result.cost = Min(dr, dc) * SqrtMicro(2) + Abs(dr - dc) * OrthCost
            /\ result.length = Max(dr, dc)

\* what is left of a call: the entries of the open set, and eight pushes for
\* every cell not yet closed
Measure ==
    CASE pc = "call" ->
            8 * Cardinality(IF Rows(grid) = 0 THEN {}
                            ELSE Cells(Rows(grid), Cols(grid))) + 3
      [] pc = "search" ->
            Len(open_set)
            + 8 * Cardinality(Cells(Rows(grid), Cols(grid)) \ closed_set) + 1
      [] pc = "done" -> 0

\* a call that has not returned has a step to take: its entry, or an
\* iteration of the loop over a heap of known nodes
Running ==
    \/ pc = "call" /\ op \in {"find_path", "find_path_with_risk"}
    \/ pc = "search" /\ \A i \in 1..Len(open_set) : open_set[i] \in DOMAIN all_nodes

\* C10: every call terminates, whatever the risk map and the safety weight,
\* weights outside [0, 1] included: until it has returned a call can take a
\* step, and every step strictly lowers a measure that is never negative.
C10_Terminates ==
    /\ [](Done \/ Running)
    /\ [][Measure' < Measure /\ Measure' >= 0]_vars

C10_Witness ==
    /\ Done /\ op = "find_path_with_risk"
    /\ safety_weight > 10
    /\ result.path # <<>>
    /\ result.cost < 0

-----------------------------------------------------------------------------
(* The search run alone: the loop of find_path and find_path_with_risk     *)
(* from entry to return with nothing in between, on the arguments of the   *)
(* call in progress.                                                       *)

RECURSIVE SearchAlone(_, _, _)
SearchAlone(nodes, heap, closed) ==
    IF heap = <<>> THEN NoPathResult
    ELSE LET p == HeapPop(heap, nodes)
         IN  IF p.item = goal THEN GoalResult(nodes, p.item)
             ELSE LET c == closed \cup {p.item}
                      r == RelaxFrom(nodes, p.heap, c, p.item,
                                     GetNeighbors(p.item, grid, blocked), 1)
                  IN  SearchAlone(r.nodes, r.heap, c)

RunAlone ==
    IF Rows(grid) = 0 THEN NoPathResult
    ELSE IF op = "find_path" /\ ~ValidEndpoints(grid, start, goal, blocked)
    THEN NoPathResult
    ELSE IF op # "find_path" /\ ~ValidEndpointsRisk(grid, start, goal)
    THEN NoPathResult
    ELSE SearchAlone([q \in {start} |-> StartNode(HeuristicOf(start, goal))],
                     <<start>>, {})

\* the sum of the risk values of the cells of a path, in tenths
RECURSIVE PathRisk(_, _)
PathRisk(rm, path) ==
    IF path = <<>> THEN 0
    ELSE rm[path[1][1] + 1][path[1][2] + 1] + PathRisk(rm, Tail(path))

\* the summed cost find_path_with_risk gives the edges of a path: for each
\* edge, move_cost * (1 - safety_weight) + 10 * risk[target] * safety_weight
RECURSIVE PathCombinedCost(_, _)
PathCombinedCost(rm, path) ==
    IF Len(path) < 2 THEN 0
    ELSE (StepCost(path[1], path[2]) * (10 - safety_weight)
            + rm[path[2][1] + 1][path[2][2] + 1] * OrthCost * safety_weight) \div 10
         + PathCombinedCost(rm, Tail(path))

-----------------------------------------------------------------------------
(* Claims about calls in sequence, calls in parallel and compare_routes.   *)

\* C11: calls of find_path, find_path_with_risk or compare_routes on the same
\* planner with identical arguments return identical results, whatever calls
\* were made in between.
C11_Idempotent ==
    /\ \A i, j \in 1..Len(calls) :
          calls[i].call = calls[j].call => calls[i].ret = calls[j].ret
    /\ TopDone =>
          \A i \in 1..Len(calls) : calls[i].call = CallOf => calls[i].ret = Returned

C11_Witness ==
    /\ TopDone
    /\ Len(calls) = 2
    /\ calls[1].call = CallOf
    /\ calls[2].call.op # TopOp
    /\ calls[2].call.grid # grid
    /\ result.path # <<>>
    /\ calls[1].ret = Returned

\* C12: two calls running concurrently on one planner, under any interleaving
\* of their steps, each return what they return when run alone: every search
\* that finishes, called directly or by compare_routes, returns the result
\* of the search run alone on its arguments, compare_routes returns the
\* dictionary of its own three searches, and the planner has no attribute
\* written.
C12_ConcurrentAsAlone ==
    /\ pc = "done" => result = RunAlone
    /\ cpc = "done" => routes = RoutesOf(kept)
    /\ planner = <<>>

C12_Witness ==
    /\ pc = "done"
    /\ result.path # <<>>
    /\ other # None
    /\ other.pc = "search"
    /\ other.grid = grid
    /\ other.op # op
    /\ other.closed_set \cap closed_set # {}
    /\ closed_set \ other.closed_set # {}

\* C13: find_path, find_path_with_risk and compare_routes leave their inputs
\* unchanged: no step of a call changes the grid, the blocked list or the
\* risk map (only the caller's next call brings new ones).
C13_InputsUnchanged ==
    [][calls' = calls =>
          /\ grid' = grid
          /\ blocked' = blocked
          /\ risk_given' = risk_given
          /\ risk_map' = risk_map]_vars

C13_Witness ==
    /\ TopDone
    /\ cpc = "done"
    /\ Len(calls) = 2
    /\ calls[1].call.op = "find_path"
    /\ calls[2].call.op = "find_path_with_risk"
    /\ calls[2].call.grid = grid
    /\ calls[2].ret.path # <<>>
    /\ routes.safest.path # <<>>

\* C14: compare_routes called without a risk map returns as safest and as
\* balanced the shortest result, the one find_path returned: same path, same
\* distance and same length as shortest, with risk 0.
C14_NoRiskMapDegrades ==
    (cpc = "done" /\ ~risk_given) =>
        /\ op = "find_path"
        /\ routes.shortest.path = result.path
        /\ routes.shortest.distance = RoundCost(result.cost)
        /\ routes.shortest.length = result.length
        /\ \A r \in {routes.safest, routes.balanced} :
              /\ r.path = routes.shortest.path
              /\ r.distance = routes.shortest.distance
              /\ r.length = routes.shortest.length
              /\ r.risk = 0

C14_Witness ==
    /\ cpc = "done"
    /\ ~risk_given
    /\ Len(routes.safest.path) > 2
    /\ routes.safest.distance > 200

\* C15 (as claimed): for every grid, blocked set, start and goal,
\* compare_routes called with a uniformly-zero risk map returns identical
\* paths under shortest, safest and balanced.
C15_ZeroRiskSamePaths ==
    (cpc = "done" /\ risk_given /\ risk_map = ZeroRisk(grid)) =>
        /\ routes.safest.path = routes.shortest.path
        /\ routes.balanced.path = routes.shortest.path

\* C16 (as claimed): each of the three labelled results carries as risk the
\* rounded sum of the risk_map values over the cells of its own path, and as
\* length the number of edges of its path (0 if the path is empty).
C16_LabeledRiskAndLength ==
    (cpc = "done" /\ RiskMapTruthy) =>
        \A r \in {routes.shortest, routes.safest, routes.balanced} :
            /\ r.path # <<>> => r.risk = RoundRisk(PathRisk(risk_map, r.path))
            /\ r.length = IF r.path = <<>> THEN 0 ELSE Len(r.path) - 1

\* C17: the cost find_path_with_risk returns with a path is the sum over the
\* path's edges of move_cost * (1 - safety_weight)
\* + 10 * risk_map[target cell] * safety_weight, the target being the cell
\* the edge enters: the risk of the start cell adds nothing.
C17_CostIsCombinedSum ==
    (Done /\ op = "find_path_with_risk" /\ result.path # <<>>) =>
        result.cost = PathCombinedCost(RiskMapUsed, result.path)

C17_Witness ==
    /\ Done /\ op = "find_path_with_risk"
    /\ risk_given
    /\ safety_weight = 8
    /\ Len(result.path) > 3
    /\ RiskAt(risk_map, start) = 9
    /\ result.risk > 9
    /\ result.cost = PathCombinedCost(risk_map, result.path)

\* C18: the risk find_path_with_risk returns with a path is the sum of the
\* unscaled risk_map values over every cell of the path, start and goal
\* included; without a risk map it is 0.
C18_RiskIsPathSum ==
    (Done /\ op = "find_path_with_risk" /\ result.path # <<>>) =>
        IF risk_given
        THEN result.risk = PathRisk(risk_map, result.path)
        ELSE result.risk = 0

C18_Witness ==
    /\ Done /\ op = "find_path_with_risk"
    /\ risk_given
    /\ Len(result.path) > 2
    /\ RiskAt(risk_map, start) = 9
    /\ RiskAt(risk_map, goal) = 9
    /\ result.risk = 18

\* C19: with safety_weight = 0 and traversable start and goal,
\* find_path_with_risk returns the same path, the same cost and the same
\* length as find_path on the same grid, start, goal and blocked set,
\* whatever the risk map.
C19_ZeroWeightIsFindPath ==
    (TopDone /\ op = "find_path_with_risk" /\ safety_weight = 0
          /\ Traversable(start) /\ Traversable(goal)) =>
        \A i \in 1..Len(calls) :
            LET c == calls[i]
            IN  (/\ c.call.op = "find_path"
                 /\ c.call.grid = grid
                 /\ c.call.start = start
                 /\ c.call.goal = goal
                 /\ c.call.blocked = blocked) =>
                    /\ result.path = c.ret.path
                    /\ result.cost = c.ret.cost
                    /\ result.length = c.ret.length

C19_Witness ==
    /\ TopDone /\ op = "find_path_with_risk" /\ safety_weight = 0
    /\ Traversable(start) /\ Traversable(goal)
    /\ Len(calls) = 1
    /\ calls[1].call.op = "find_path"
    /\ Len(result.path) > WideN
    /\ result.risk > 9
    /\ result.path = calls[1].ret.path

\* C20: on the 5 x 5 grid whose cells (i, i) carry risk 0.9 and all others 0,
\* from [0, 0] to [4, 4] with no blocked cell, the safest route contains none
\* of [1, 1], [2, 2], [3, 3], which the shortest route uses, and the risk
\* values of the safest path's cells sum to strictly less than those of the
\* shortest path's cells.
C20_DiagonalRiskAvoided ==
    (/\ cpc = "done"
     /\ grid = ScenarioInput.grid
     /\ start = ScenarioInput.start
     /\ goal = ScenarioInput.goal
     /\ blocked = {}
     /\ risk_given
     /\ risk_map = DiagonalRisk(grid)) =>
        LET interior == {<<1, 1>>, <<2, 2>>, <<3, 3>>}
            safest == routes.safest.path
            shortest == routes.shortest.path
        IN  /\ safest # <<>>
            /\ \A i \in 1..Len(safest) : safest[i] \notin interior
            /\ \A c \in interior : \E i \in 1..Len(shortest) : shortest[i] = c
            /\ PathRisk(risk_map, safest) < PathRisk(risk_map, shortest)

C20_Witness ==
    /\ cpc = "done"
    /\ grid = ScenarioInput.grid
    /\ start = ScenarioInput.start
    /\ goal = ScenarioInput.goal
    /\ risk_given
    /\ risk_map = DiagonalRisk(grid)
    /\ kept.safest.risk = 18
    /\ PathRisk(risk_map, routes.shortest.path) = 45
    /\ Len(routes.safest.path) = 6

\* the least summed distance cost of a traversable 8-connected path from each
\* free cell to the goal (Inf where there is none)
CostToGoal == Cheapest([q \in FreeCells |-> IF q = goal THEN 0 ELSE Inf])

-----------------------------------------------------------------------------
(* Claims about the numbers and the bookkeeping of the search.             *)

\* C21 (as claimed): on the 5 x 5 all-free grid, from [0, 0] to [4, 4] with no
\* blocked cell and no risk map, find_path returns the path
\* [0,0],[1,1],[2,2],[3,3],[4,4] of length 4 with cost 4 x 1.41421356, which
\* is 5.657 to three decimals.
C21_DiagonalScenario ==
    (/\ pc = "done"
     /\ op = "find_path"
     /\ grid = ScenarioInput.grid
     /\ start = ScenarioInput.start
     /\ goal = ScenarioInput.goal
     /\ blocked = {}
     /\ ~risk_given) =>
        /\ result.path = << <<0, 0>>, <<1, 1>>, <<2, 2>>, <<3, 3>>, <<4, 4>> >>
        /\ result.length = 4
        /\ Abs(result.cost - 4 * SqrtMicro(2)) < 500

\* C22 (as claimed): the base edge cost is 1.0 for an orthogonal move and the
\* constant 1.41421356 for a diagonal move, in find_path and in
\* find_path_with_risk: for the cell an iteration has popped and each of the
\* neighbours it generates, the move cost is 1.0 or, to the five decimals of
\* the model, the square root of 2.
C22_EdgeCostConstants ==
    (pc = "search" /\ current # None) =>
        LET nbrs == GetNeighbors(current, grid, blocked)
        IN  \A i \in 1..Len(nbrs) :
                LET q == nbrs[i]
                    cost == CalculateCost(current, q)
                IN  IF current[1] # q[1] /\ current[2] # q[2]
                    THEN Abs(cost - SqrtMicro(2)) < 10
                    ELSE cost = OrthCost

\* C23 (as claimed): in find_path the heuristic is admissible for the edge
\* costs actually used: the h of every node is at most the least summed edge
\* cost of a traversable 8-connected path from its position to the goal.
C23_HeuristicAdmissible ==
    (pc \in {"search", "done"} /\ op = "find_path" /\ ~InvalidInput) =>
        \A n \in DOMAIN all_nodes : all_nodes[n].h <= CostToGoal[n]

\* C24 (as claimed): at every iteration of the search loop the entry popped
\* from the open set has the smallest f of all the entries in the open set
\* at that moment, also after a node in the open set had its g, h and f
\* lowered in place and was pushed again.
C24_PopsSmallestF ==
    (pc = "search" /\ open_set # <<>>) =>
        \A i \in 1..Len(open_set) :
            all_nodes[Popped.item].f <= all_nodes[open_set[i]].f

(* Deep grids: searches long enough for a position to be closed after an
   entry with a smaller f was left behind in the open set. *)

\* the rows of a deep grid (its columns are WideN)
DeepN == 7

\* the obstacles of a deep grid: none, the whole of row 1, or a short wall in
\* row 1 with a cell at the left of rows 0 and 3
DeepObstacles ==
    {{}, Wall(1, 0, WideN - 1), Wall(1, 1, 2) \cup {<<0, 0>>, <<3, 0>>}}

\* deep grids: DeepN x WideN, start in the first row, goal in the last row
DeepInputs ==
    {[grid |-> GridOf(DeepN, WideN, w[1]), start |-> <<0, w[2]>>,
      goal |-> <<DeepN - 1, w[3]>>, blocked |-> {}] :
        w \in DeepObstacles \X (0..(WideN - 1)) \X (0..(WideN - 1))}

\* one call of find_path, or of find_path_with_risk without a risk map, on a
\* deep grid
InitDeep ==
    /\ \E in \in DeepInputs :
          /\ grid = in.grid
          /\ start = in.start
          /\ goal = in.goal
          /\ blocked = in.blocked
    /\ op \in {"find_path", "find_path_with_risk"}
    /\ risk_given = FALSE
    /\ risk_map = <<>>
    /\ safety_weight = 5
    /\ pc = "call"
    /\ open_set = <<>>
    /\ closed_set = {}
    /\ all_nodes = <<>>
    /\ current = None
    /\ result = NoResult
    /\ InitOuter

DeepSpec == InitDeep /\ [][Next]_vars

\* C25 (as claimed): in find_path the g recorded for a position when it is
\* added to the closed set is the least summed edge cost of a traversable
\* 8-connected path from start to that position.
C25_ClosedIsOptimal ==
    (pc \in {"search", "done"} /\ op = "find_path" /\ ~InvalidInput) =>
        \A p \in closed_set : all_nodes[p].g = ShortestCost[p]

\* C26 (as claimed): an entry popped for a position that is already in the
\* closed set is skipped, its neighbours are not generated again: within one
\* search each position is expanded at most once.
C26_ExpandedOnce ==
    [][(pc = "search" /\ pc' = "search") => current' \notin closed_set]_vars

\* the number of entries of position n in a heap
Entries(heap, n) == Cardinality({i \in 1..Len(heap) : heap[i] = n})

\* C27 (as claimed): during a search a position's record in the node table
\* (g, h, f, predecessor) is written only when the position is discovered or
\* when tentative_g is strictly smaller than its recorded g: no record leaves
\* the table, a g never increases, an equal cost never replaces the
\* predecessor, and the record of a closed position is never modified.
C27_RecordWrittenOnImprovement ==
    [][pc = "search" =>
        /\ DOMAIN all_nodes \subseteq DOMAIN all_nodes'
        /\ \A n \in DOMAIN all_nodes :
              \/ all_nodes'[n] = all_nodes[n]
              \/ /\ all_nodes'[n].g < all_nodes[n].g
                 /\ all_nodes'[n].g = all_nodes[current'].g + EdgeCost(current', n)
                 /\ all_nodes'[n].parent = current'
                 /\ n \notin closed_set']_vars

\* an iteration has just lowered the record of a position that still has its
\* older entry in the open set, and has left alone a neighbour that it
\* reaches at exactly the recorded cost
C27_Witness ==
    /\ pc = "search"
    /\ current # None
    /\ \E n \in DOMAIN all_nodes :
          /\ all_nodes[n].parent = current
          /\ Entries(open_set, n) >= 2
    /\ \E n \in DOMAIN all_nodes \ closed_set :
          /\ all_nodes[n].parent # current
          /\ Adjacent(current, n)
          /\ all_nodes[n].g = all_nodes[current].g + EdgeCost(current, n)

\* the position reached from n after k steps along the predecessors (None
\* once the chain has ended)
RECURSIVE Ancestor(_, _, _)
Ancestor(nodes, n, k) ==
    IF k = 0 \/ n = None THEN n ELSE Ancestor(nodes, nodes[n].parent, k - 1)

\* C28 (as claimed): in every state of a search the node table has the start
\* node with g = 0 and no predecessor, and every other node n has a
\* predecessor p that is in the closed set, is 8-adjacent to n and satisfies
\* n.g = p.g + edge_cost(p, n) and n.f = n.g + n.h; following predecessors
\* from any node reaches the start without a cycle.
C28_NodeTable ==
    (pc \in {"search", "done"} /\ all_nodes # <<>>) =>
        /\ start \in DOMAIN all_nodes
        /\ all_nodes[start].g = 0
        /\ all_nodes[start].parent = None
        /\ \A n \in DOMAIN all_nodes \ {start} :
              LET p == all_nodes[n].parent
              IN  /\ p \in closed_set
                  /\ p \in DOMAIN all_nodes
                  /\ Adjacent(p, n)
                  /\ all_nodes[n].g = all_nodes[p].g + EdgeCost(p, n)
        /\ \A n \in DOMAIN all_nodes :
              /\ all_nodes[n].f = all_nodes[n].g + all_nodes[n].h
              /\ \E k \in 0..(Cardinality(DOMAIN all_nodes) - 1) :
                    Ancestor(all_nodes, n, k) = start

\* a risk-weighted search holds a node two predecessors away from the start
\* whose record was lowered after it had been pushed
C28_Witness ==
    /\ pc = "search"
    /\ op = "find_path_with_risk"
    /\ risk_given
    /\ \E n \in DOMAIN all_nodes \ closed_set :
          /\ Ancestor(all_nodes, n, 2) # None
          /\ Ancestor(all_nodes, n, 2) # start
          /\ Entries(open_set, n) >= 2

(* Corner grids: the cell (0, 0) touches the rest of the grid only at the
   diagonal corner with (1, 1). *)

\* the two cells orthogonally adjacent to the move between (0, 0) and (1, 1)
CornerCells == {<<0, 1>>, <<1, 0>>}

\* each corner cell is an obstacle of the grid or in the blocked list; in the
\* last setting (1, 1) is an obstacle too and (0, 0) is cut off
CornerSettings ==
    {[obstacles |-> O, blocked |-> CornerCells \ O] : O \in SUBSET CornerCells}
    \cup {[obstacles |-> CornerCells \cup {<<1, 1>>}, blocked |-> {}]}

\* corner grids: (SmallN + 1) x (SmallN + 1), from (0, 0) to any cell and
\* from any cell to (0, 0)
CornerInputs ==
    {[grid |-> GridOf(SmallN + 1, SmallN + 1, w[1].obstacles),
      start |-> w[2][1], goal |-> w[2][2], blocked |-> w[1].blocked] :
        w \in CornerSettings
               \X (({<<0, 0>>} \X Cells(SmallN + 1, SmallN + 1))
                    \cup (Cells(SmallN + 1, SmallN + 1) \X {<<0, 0>>}))}

\* one call of find_path, or of find_path_with_risk without a risk map, on a
\* corner grid
InitCorner ==
    /\ \E in \in CornerInputs :
          /\ grid = in.grid
          /\ start = in.start
          /\ goal = in.goal
          /\ blocked = in.blocked
    /\ op \in {"find_path", "find_path_with_risk"}
    /\ risk_given = FALSE
    /\ risk_map = <<>>
    /\ safety_weight = 5
    /\ pc = "call"
    /\ open_set = <<>>
    /\ closed_set = {}
    /\ all_nodes = <<>>
    /\ current = None
    /\ result = NoResult
    /\ InitOuter

CornerSpec == InitCorner /\ [][Next]_vars

\* the elements of a sequence
Range(s) == {s[i] : i \in 1..Len(s)}

\* a diagonal move whose two orthogonally adjacent cells are both obstacles,
\* blocked or outside the grid
Squeezed(p, q) ==
    /\ p[1] # q[1] /\ p[2] # q[2]
    /\ ~Traversable(<<p[1], q[2]>>)
    /\ ~Traversable(<<q[1], p[2]>>)

\* C29 (as claimed): neighbour generation has no corner-cutting restriction:
\* every traversable cell one step away from the expanded cell is yielded,
\* also diagonally between two obstacle or blocked cells, and a goal that is
\* joined to the start only through such a corner gets a path.
C29_NoCornerRestriction ==
    /\ (pc = "search" /\ current # None) =>
          Range(GetNeighbors(current, grid, blocked))
              = {q \in FreeCells : Adjacent(current, q)}
    /\ (Done /\ op = "find_path" /\ ~InvalidInput /\ goal \in Reachable) =>
          result.path # <<>>

\* a returned path makes a diagonal move between two cells that are obstacles
\* or blocked
C29_Witness ==
    /\ Done
    /\ op = "find_path"
    /\ Len(result.path) >= 2
    /\ \E i \in 1..(Len(result.path) - 1) :
          Squeezed(result.path[i], result.path[i + 1])
    /\ blocked # {}

-----------------------------------------------------------------------------
(* POST /route/astar of main.py: plan_escape_route reads the payload,      *)
(* checks that grid, start and goal are there, calls one operation of the  *)
(* planner and returns its result as a dictionary; the whole body is       *)
(* inside `try: ... except Exception`.  A key that is missing reads as     *)
(* None, and None and the empty list are both the empty tuple here.  The   *)
(* "timestamp" entry of the dictionaries is left out.                      *)

\* `not x` is false: x is neither None nor an empty list
Truthy(x) == x # <<>>

\* the HTTPException of `raise HTTPException(status_code=400, ...)`
MissingError ==
    [status_code |-> 400, detail |-> "Missing grid, start, or goal"]

\* str(e) of an HTTPException, in its parts: "status: detail", or the empty
\* string with a library whose HTTPException does not define __str__
StrOf(e) == {<<e.status_code, ": ", e.detail>>, <<>>}

\* `except Exception as e`: HTTPException is an Exception, so the handler
\* catches what its own body raised and raises the error 500 instead; the
\* detail is the f-string's two parts
Caught(e) ==
    {[raised |-> [status_code |-> 500,
                  detail |-> <<"Route planning error: ", str>>]] :
        str \in StrOf(e)}

\* the call plan_escape_route makes for a payload it accepts
PlannerCall(pl) ==
    [op |-> IF pl.compare_routes THEN "compare_routes"
            ELSE IF pl.given /\ Truthy(pl.map) THEN "find_path_with_risk"
            ELSE "find_path",
     grid |-> pl.grid, start |-> pl.start, goal |-> pl.goal,
     blocked |-> pl.blocked, given |-> pl.given, map |-> pl.map,
     weight |-> pl.weight]

\* the handler up to its call of the planner
RouteRequest ==
    /\ hpc = "request"
    /\ IF ~Truthy(payload.grid) \/ ~Truthy(payload.start) \/ ~Truthy(payload.goal)
       THEN /\ response' \in Caught(MissingError)
            /\ hpc' = "done"
            /\ UNCHANGED <<pc, cpc, kept, routes, result>>
            /\ UNCHANGED args
       ELSE /\ BeginCall(PlannerCall(payload))
            /\ hpc' = "planning"
            /\ UNCHANGED response
    /\ UNCHANGED <<open_set, closed_set, all_nodes, current>>
    /\ UNCHANGED <<planner, calls, other, payload>>

\* the dictionary returned after find_path_with_risk
RiskBody ==
    IF result.path = <<>>
    THEN [path |-> <<>>, distance |-> Inf, risk |-> Inf, length |-> 0,
          message |-> "No path found"]
    ELSE [path |-> result.path, distance |-> RoundCost(result.cost),
          risk |-> RoundRisk(result.risk), length |-> result.length,
          safety_weight |-> safety_weight]

\* the dictionary returned after find_path
PathBody ==
    IF result.path = <<>>
    THEN [path |-> <<>>, cost |-> Inf, length |-> 0, message |-> "No path found"]
    ELSE [path |-> result.path, cost |-> RoundCost(result.cost),
          length |-> result.length]

\* the planner has returned: the handler returns its dictionary
RouteRespond ==
    /\ hpc = "planning"
    /\ TopDone
    /\ response' = [returned |-> IF cpc = "done" THEN routes
                                 ELSE IF op = "find_path_with_risk" THEN RiskBody
                                 ELSE PathBody]
    /\ hpc' = "done"
    /\ UNCHANGED <<pc, open_set, closed_set, all_nodes, current, result>>
    /\ UNCHANGED args
    /\ UNCHANGED <<planner, cpc, kept, routes, calls, other, payload>>

\* the payloads tried: grid, start and goal each there or not, the grids of
\* a session, every kind of risk map, the default weight and another one,
\* with and without "compare_routes"
RoutePayloads ==
    {[grid |-> w[1], start |-> w[2], goal |-> w[3], blocked |-> {},
      given |-> w[4][1], map |-> IF w[4][2] THEN DiagonalRisk(w[1]) ELSE <<>>,
      weight |-> w[5], compare_routes |-> w[6]] :
        w \in ({<<>>} \cup SessionGrids) \X {None, <<SmallN, 0>>}
               \X {None, <<0, 0>>}
               \X {<<FALSE, FALSE>>, <<TRUE, FALSE>>, <<TRUE, TRUE>>}
               \X {BalancedWeight, SafestWeight} \X BOOLEAN}

\* one request: the handler is at its entry and the planner is idle
InitRoute ==
    /\ payload \in RoutePayloads
    /\ hpc = "request"
    /\ response = None
    /\ op = "none"
    /\ grid = <<>>
    /\ start = None
    /\ goal = None
    /\ blocked = {}
    /\ risk_given = FALSE
    /\ risk_map = <<>>
    /\ safety_weight = BalancedWeight
    /\ pc = "idle"
    /\ open_set = <<>>
    /\ closed_set = {}
    /\ all_nodes = <<>>
    /\ current = None
    /\ result = NoResult
    /\ planner = <<>>
    /\ cpc = "none"
    /\ kept = <<>>
    /\ routes = None
    /\ calls = <<>>
    /\ other = None

RouteNext == CompareNext \/ RouteRequest \/ RouteRespond

RouteSpec == InitRoute /\ [][RouteNext]_vars

\* a payload without grid, start or goal (missing, None or empty)
Incomplete(pl) == pl.grid = <<>> \/ pl.start = <<>> \/ pl.goal = <<>>

\* C30 (as claimed): a POST /route/astar request whose payload lacks grid,
\* start or goal (or has it empty) is answered with HTTP status 400 and the
\* detail 'Missing grid, start, or goal', and no operation of the planner is
\* invoked.
C30_MissingFieldIs400 ==
    (hpc = "done" /\ Incomplete(payload)) =>
        /\ response.raised.status_code = 400
        /\ response.raised.detail = "Missing grid, start, or goal"
        /\ pc = "idle"
        /\ cpc = "none"
        /\ all_nodes = <<>>

====
